---- MODULE Spec2Model ----
(***************************************************************************)
(* ZIP code distance calculator (src/src/App.jsx): the getDistance adapter *)
(* and the handleSubmit batch of the App component.                        *)
(*                                                                         *)
(* Conventions.                                                            *)
(*  - A JavaScript string is the sequence of its characters, so that       *)
(*    trim() and template literals are computed, not assumed. A character  *)
(*    TLA+ has no escape for is written as its code point, "U+00A0".       *)
(*  - A two-decimal number produced by parseFloat(x.toFixed(2)) is kept as *)
(*    its integer number of hundredths (12.35 is 1235): two such doubles   *)
(*    are === exactly when their hundredths are equal.                     *)
(*  - Other JavaScript values met by Math.min and === are tagged records:  *)
(*    Num(n), Undefined, NaN, Infinity.                                    *)
(*  - theme state (darkMode) and the never-set error text do not touch the *)
(*    batch and are left out.                                              *)
(***************************************************************************)
EXTENDS Integers, Sequences, FiniteSets

(***************************************************************************)
(* Strings                                                                 *)
(***************************************************************************)
\* the ECMAScript WhiteSpace code points: TAB, VT, FF, SP, NBSP, ZWNBSP and
\* the Unicode category Zs
WhiteSpaceChars ==
  {"\t", "U+000B", "\f", " ", "U+00A0", "U+FEFF", "U+1680", "U+2000",
   "U+2001", "U+2002", "U+2003", "U+2004", "U+2005", "U+2006", "U+2007",
   "U+2008", "U+2009", "U+200A", "U+202F", "U+205F", "U+3000"}

\* the ECMAScript LineTerminator code points: LF, CR, LS, PS
LineTerminators == {"\n", "\r", "U+2028", "U+2029"}

\* what String.prototype.trim removes at both ends
WhiteSpace == WhiteSpaceChars \cup LineTerminators

RECURSIVE TrimStart(_)
TrimStart(s) ==
  IF s # <<>> /\ Head(s) \in WhiteSpace THEN TrimStart(Tail(s)) ELSE s

RECURSIVE TrimEnd(_)
TrimEnd(s) ==
  IF s # <<>> /\ s[Len(s)] \in WhiteSpace
    THEN TrimEnd(SubSeq(s, 1, Len(s) - 1))
    ELSE s

\* String.prototype.trim
Trim(s) == TrimEnd(TrimStart(s))

NoRoutePrefix ==
  <<"N", "o", " ", "r", "o", "u", "t", "e", " ", "f", "o", "u", "n", "d", " ",
    "f", "r", "o", "m", " ">>

NoRouteInfix == <<" ", "t", "o", " ">>

\* `No route found from ${sourceZip} to ${destZip}`
NoRouteMessage(sourceZip, destZip) ==
  NoRoutePrefix \o sourceZip \o NoRouteInfix \o destZip

\* messages of the errors the runtime itself raises (V8 wording)
FailedToFetch ==
  <<"F", "a", "i", "l", "e", "d", " ", "t", "o", " ", "f", "e", "t", "c", "h">>

JsonSyntaxMsg ==
  <<"U", "n", "e", "x", "p", "e", "c", "t", "e", "d", " ", "e", "n", "d", " ",
    "o", "f", " ", "J", "S", "O", "N", " ", "i", "n", "p", "u", "t">>

CannotReadOf ==
  <<"C", "a", "n", "n", "o", "t", " ", "r", "e", "a", "d", " ", "p", "r", "o",
    "p", "e", "r", "t", "i", "e", "s", " ", "o", "f", " ">>

NullStatusMsg ==
  CannotReadOf \o <<"n", "u", "l", "l", " ", "(", "r", "e", "a", "d", "i",
    "n", "g", " ", "'", "s", "t", "a", "t", "u", "s", "'", ")">>

UndefElementsMsg ==
  CannotReadOf \o <<"u", "n", "d", "e", "f", "i", "n", "e", "d", " ", "(",
    "r", "e", "a", "d", "i", "n", "g", " ", "'", "e", "l", "e", "m", "e",
    "n", "t", "s", "'", ")">>

UndefStatusMsg ==
  CannotReadOf \o <<"u", "n", "d", "e", "f", "i", "n", "e", "d", " ", "(",
    "r", "e", "a", "d", "i", "n", "g", " ", "'", "s", "t", "a", "t", "u",
    "s", "'", ")">>

\* an Error constructed without a message has message ''
EmptyMsg == <<>>

(***************************************************************************)
(* IEEE-754 double arithmetic, as far as toFixed(2) can see it             *)
(***************************************************************************)
RECURSIVE Pow2Mod(_, _)
Pow2Mod(k, m) == IF k = 0 THEN 1 % m ELSE (2 * Pow2Mod(k - 1, m)) % m

\* the largest e >= 0 with b * 2^e <= a   (a >= b >= 1)
RECURSIVE Log2Floor(_, _)
Log2Floor(a, b) == IF 2 * b <= a THEN 1 + Log2Floor(a, 2 * b) ELSE 0

\* the least j >= 1 with a * 2^j >= b     (1 <= a < b)
RECURSIVE Log2Ceil(_, _)
Log2Ceil(a, b) == IF 2 * a >= b THEN 1 ELSE 1 + Log2Ceil(2 * a, b)

\* the k for which a * 2^k / b has a 53-bit integer part (the significand)
SignificandShift(a, b) ==
  IF a >= b THEN 52 - Log2Floor(a, b) ELSE 52 + Log2Ceil(a, b)

\* The sign of fl(a / b) - a / b for integers a >= 0, b >= 1, where fl is the
\* correctly rounded (nearest, ties to even) double quotient the / operator
\* returns. The remainder and the parity of the 53-bit quotient are computed
\* modulo b and 2b, so no intermediate leaves 32 bits.
DivErrSign(a, b) ==
  IF a = 0 THEN 0
  ELSE LET k   == SignificandShift(a, b)
           r   == ((a % b) * Pow2Mod(k, b)) % b
           r2  == ((a % (2 * b)) * Pow2Mod(k, 2 * b)) % (2 * b)
           odd == r2 \div b = 1
       IN  IF r = 0 THEN 0
           ELSE IF 2 * r < b THEN -1
           ELSE IF 2 * r > b THEN 1
           ELSE IF odd THEN 1 ELSE -1

\* a mutant of ToFixed2Div: the third decimal is cut off, not rounded
ToFixed2DivTruncated(a, b) == (100 * a) \div b

\* parseFloat((a / b).toFixed(2)) in hundredths. toFixed rounds the exact
\* value of the double to the nearest hundredth and takes the larger one when
\* the double lies exactly half way; when a / b itself lies half way the
\* double is the one that decides.
ToFixed2Div(a, b) ==
  LET n0  == (100 * a) \div b
      rem == (100 * a) % b
  IN  IF 2 * rem < b THEN n0
      ELSE IF 2 * rem > b THEN n0 + 1
      ELSE IF DivErrSign(a, b) >= 0 THEN n0 + 1 ELSE n0

MilesPerKmMicro == 621371

\* floor and remainder of d * 621371 / 10^7 (hundredths of a mile for d
\* metres), split so that no product leaves 32 bits (d below 3 * 10^6)
MilesFloor(d) ==
  LET hi == d * (MilesPerKmMicro \div 1000)
      lo == d * (MilesPerKmMicro % 1000)
      x  == (hi % 10000) * 1000 + lo
  IN  (hi \div 10000) + (x \div 10000000)

MilesRem(d) ==
  LET hi == d * (MilesPerKmMicro \div 1000)
      lo == d * (MilesPerKmMicro % 1000)
  IN  ((hi % 10000) * 1000 + lo) % 10000000

\* parseFloat(((d / 1000) * 0.621371).toFixed(2)) in hundredths. The double
\* product is within 2^-51 (relative) of d * 621371 / 10^9, and that value
\* is at least 10^-7 hundredths away from a half way point for every d that
\* is not a multiple of 5 * 10^6, so the product rounds as the exact value.
MilesToFixed2(d) ==
  IF 2 * MilesRem(d) < 10000000 THEN MilesFloor(d) ELSE MilesFloor(d) + 1

(***************************************************************************)
(* JavaScript values seen by Math.min and ===                              *)
(***************************************************************************)
Num(n) == [t |-> "number", v |-> n]

Undefined == [t |-> "undefined"]

NaN == [t |-> "NaN"]

Infinity == [t |-> "Infinity"]

\* a === b for the values above: NaN equals nothing, numbers by value
StrictEq(a, b) ==
  \/ a.t = "number" /\ b.t = "number" /\ a.v = b.v
  \/ a.t = "Infinity" /\ b.t = "Infinity"
  \/ a.t = "undefined" /\ b.t = "undefined"

RECURSIVE SeqMin(_)
SeqMin(s) ==
  IF Len(s) = 1 THEN s[1].v
  ELSE LET m == SeqMin(Tail(s)) IN IF s[1].v < m THEN s[1].v ELSE m

RECURSIVE SeqMax(_)
SeqMax(s) ==
  IF Len(s) = 1 THEN s[1].v
  ELSE LET m == SeqMax(Tail(s)) IN IF s[1].v > m THEN s[1].v ELSE m

\* ToNumber(x) is NaN: for undefined and for NaN itself
ToNaN(x) == x.t \in {"undefined", "NaN"}

IsFinite(x) == x.t = "number"

\* a mutant of MathMin: the largest argument is returned
MathMax(vals) ==
  IF \E i \in 1..Len(vals) : ToNaN(vals[i]) THEN NaN
  ELSE IF SelectSeq(vals, IsFinite) = vals /\ vals # <<>>
    THEN Num(SeqMax(vals))
  ELSE Infinity

\* Math.min(...vals): NaN as soon as one argument converts to NaN (undefined
\* does), else the smallest argument, +Infinity being larger than every
\* number and the result when there is no argument
MathMin(vals) ==
  IF \E i \in 1..Len(vals) : ToNaN(vals[i]) THEN NaN
  ELSE IF SelectSeq(vals, IsFinite) = <<>> THEN Infinity
  ELSE Num(SeqMin(SelectSeq(vals, IsFinite)))

(***************************************************************************)
(* getDistance                                                             *)
(***************************************************************************)
\* the parsed body null (the JSON text "null")
NullBody == [isNull |-> TRUE]

IsNull(data) == "isNull" \in DOMAIN data

Threw(message) == [threw |-> TRUE, message |-> message]

Returned(value) == [threw |-> FALSE, value |-> value]

\* lines 12-21: the result object for a distance of d metres and a duration
\* of s seconds
DistanceResult(d, s) ==
  [distanceKm    |-> ToFixed2Div(d, 1000),
   distanceMiles |-> MilesToFixed2(d),
   durationMins  |-> ToFixed2Div(s, 60)]

\* getDistance from line 8 on, for the parsed body data. Reading a property
\* of null or undefined throws a TypeError; the || of line 8 does not
\* evaluate its right side when the top-level status is not "OK".
GetDistanceOn(sourceZip, destZip, data) ==
  IF IsNull(data) THEN Threw(NullStatusMsg)
  ELSE IF data.status # "OK" THEN Threw(NoRouteMessage(sourceZip, destZip))
  ELSE IF Len(data.rows) = 0 THEN Threw(UndefElementsMsg)
  ELSE IF Len(data.rows[1].elements) = 0 THEN Threw(UndefStatusMsg)
  ELSE IF data.rows[1].elements[1].status # "OK"
    THEN Threw(NoRouteMessage(sourceZip, destZip))
  ELSE LET element == data.rows[1].elements[1]
       IN  Returned(DistanceResult(element.distance.value,
                                   element.duration.value))

(***************************************************************************)
(* handleSubmit: the records                                               *)
(***************************************************************************)
\* a mutant of SuccessRecord: the record carries the trimmed code
SuccessRecordTrimmed(zip, res) ==
  [source |-> Trim(zip), distanceKm |-> res.distanceKm,
   distanceMiles |-> res.distanceMiles, durationMins |-> res.durationMins]

\* line 47: { source: zip, ...res }
SuccessRecord(zip, res) ==
  [source |-> zip, distanceKm |-> res.distanceKm,
   distanceMiles |-> res.distanceMiles, durationMins |-> res.durationMins]

\* line 49: { source: zip, error: err.message }
ErrorRecord(zip, message) == [source |-> zip, error |-> message]

\* lines 45-50 once the body has been parsed
TryGetDistance(zip, dest, data) ==
  LET r == GetDistanceOn(Trim(zip), Trim(dest), data)
  IN  IF r.threw THEN ErrorRecord(zip, r.message)
      ELSE SuccessRecord(zip, r.value)

\* !r.error: true when the property is absent and when it is the empty string
NoError(r) == "error" \notin DOMAIN r \/ r.error = <<>>

\* r.distanceKm
DistanceKmOf(r) ==
  IF "distanceKm" \in DOMAIN r THEN Num(r.distanceKm) ELSE Undefined

\* line 53
ValidDistances(newResults) ==
  LET valid == SelectSeq(newResults, NoError)
  IN  [i \in 1..Len(valid) |-> DistanceKmOf(valid[i])]

\* line 58
IsMin(r, minDistance) == NoError(r) /\ StrictEq(DistanceKmOf(r), minDistance)

\* lines 53-59
FinalResults(newResults) ==
  LET minDistance == MathMin(ValidDistances(newResults))
  IN  [i \in 1..Len(newResults) |->
        [f \in DOMAIN newResults[i] \cup {"isMin"} |->
          IF f = "isMin" THEN IsMin(newResults[i], minDistance)
          ELSE newResults[i][f]]]

(***************************************************************************)
(* The environment: what the user types and what the network answers       *)
(***************************************************************************)
\* the initial values of the four source fields (lines 25-28)
InitialSourceZips ==
  <<<<"9", "5", "1", "3", "1">>, <<"3", "2", "2", "2", "0">>,
    <<"0", "7", "3", "0", "5">>, <<"7", "5", "0", "5", "0">>>>

\* what the user may type or paste into a field: a code with a blank before
\* it and a no-break space after it
TypedValues == {<<" ", "6", "0", "6", "0", "1", "U+00A0">>}

\* distances (metres) and durations (seconds) the service reports; 1000 and
\* 1005 metres are both 1.00 km once rounded
Metres == {1000, 1005, 12345}

Seconds == {678}

Element(d, s) ==
  [status |-> "OK", distance |-> [value |-> d], duration |-> [value |-> s]]

OkBody(d, s) == [status |-> "OK", rows |-> <<[elements |-> <<Element(d, s)>>]>>]

\* bodies that parse and carry no usable route
DeniedBody == [status |-> "REQUEST_DENIED", rows |-> <<>>]

NoRowsBody == [status |-> "OK", rows |-> <<>>]

NoElementsBody == [status |-> "OK", rows |-> <<[elements |-> <<>>]>>]

NotFoundBody ==
  [status |-> "OK", rows |-> <<[elements |-> <<[status |-> "NOT_FOUND"]>>]>>]

\* the bodies res.json() resolves with during a batch
Bodies ==
  {DeniedBody, NoRowsBody, NotFoundBody}
    \cup {OkBody(d, s) : d \in Metres, s \in Seconds}

\* the messages fetch rejects with
FetchErrors == {FailedToFetch, EmptyMsg}

\* the messages res.json() rejects with
JsonErrors == {JsonSyntaxMsg}

(***************************************************************************)
(* State                                                                   *)
(***************************************************************************)
VARIABLES
  sourceZip,   \* sourceZip1..sourceZip4 (lines 25-28), as a 4-tuple
  destZip,     \* line 29
  results,     \* line 30: the published batch
  loading,     \* line 32: the busy flag
  active,      \* the number of handleSubmit calls that have not returned
  pc,          \* where the running handleSubmit is suspended
  idx,         \* the position of the for-of loop of line 44
  sourceZips,  \* line 41
  closureDest, \* destZip as the closure of handleSubmit sees it
  newResults,  \* line 42
  inflight,    \* the requests fetch has started and getDistance still awaits
  issued,      \* history: the loop positions whose request has been started
  probe,       \* query specification: the input of one loop iteration
  outcome      \* query specification: the record that iteration pushed

vars ==
  <<sourceZip, destZip, results, loading, active, pc, idx, sourceZips,
    closureDest, newResults, inflight, issued, probe, outcome>>

formVars == <<sourceZip, destZip>>

handlerVars == <<pc, idx, sourceZips, closureDest, newResults>>

queryVars == <<probe, outcome>>

NoProbe == [none |-> TRUE]

Init ==
  /\ sourceZip = InitialSourceZips
  /\ destZip = <<>>
  /\ results = <<>>
  /\ loading = FALSE
  /\ active = 0
  /\ pc = "idle"
  /\ idx = 0
  /\ sourceZips = <<>>
  /\ closureDest = <<>>
  /\ newResults = <<>>
  /\ inflight = <<>>
  /\ issued = <<>>
  /\ probe = NoProbe
  /\ outcome = <<>>

(***************************************************************************)
(* The form                                                                *)
(***************************************************************************)
\* a mutant of Disabled: the controls stay usable during a batch
DisabledNever == FALSE

\* disabled={loading} on the five inputs and the submit button (lines 78-85)
Disabled == loading

\* onChange of source field k (lines 78-81)
SetSourceZip(k, v) ==
  /\ ~Disabled
  /\ sourceZip[k] # v
  /\ sourceZip' = [sourceZip EXCEPT ![k] = v]
  /\ UNCHANGED <<destZip, results, loading, active, handlerVars, inflight,
                 issued, queryVars>>

\* onChange of the destination field (line 84)
SetDestZip(v) ==
  /\ ~Disabled
  /\ destZip # v
  /\ destZip' = v
  /\ UNCHANGED <<sourceZip, results, loading, active, handlerVars, inflight,
                 issued, queryVars>>

\* the five inputs are required: the form submits only when none is empty
FormValid == destZip # <<>> /\ \A k \in 1..4 : sourceZip[k] # <<>>

(***************************************************************************)
(* handleSubmit                                                            *)
(***************************************************************************)
\* line 4: the request getDistance(zips[i].trim(), dest.trim()) sends
Request(zips, dest, i) ==
  [idx |-> i, origins |-> Trim(zips[i]), destinations |-> Trim(dest)]

\* a mutant of Issue: the four requests are started together
IssueAll(zips, dest, i) ==
  IF i = 1 THEN [k \in 1..4 |-> Request(zips, dest, k)] ELSE <<>>

\* the requests started when the loop of line 44 enters iteration i: the
\* call of line 46 is awaited, so only request i
Issue(zips, dest, i) == <<Request(zips, dest, i)>>

IssuedIdx(reqs) == [k \in 1..Len(reqs) |-> reqs[k].idx]

\* lines 36-46, up to the first await: the form is submitted
Submit ==
  /\ ~Disabled
  /\ FormValid
  /\ results' = <<>>
  /\ loading' = TRUE
  /\ active' = active + 1
  /\ sourceZips' = sourceZip
  /\ closureDest' = destZip
  /\ newResults' = <<>>
  /\ idx' = 1
  /\ pc' = "fetch"
  /\ inflight' = inflight \o Issue(sourceZip, destZip, 1)
  /\ issued' = IssuedIdx(Issue(sourceZip, destZip, 1))
  /\ UNCHANGED <<formVars, queryVars>>

\* the requests still awaited once the one of the current iteration settled
Settled == SelectSeq(inflight, LAMBDA r : r.idx # idx)

\* a mutant of Push: the batch is published as it grows
PushAndShow(rec) ==
  /\ newResults' = Append(newResults, rec)
  /\ IF idx < 4
       THEN /\ idx' = idx + 1
            /\ pc' = "fetch"
            /\ inflight' = Settled \o Issue(sourceZips, closureDest, idx + 1)
            /\ issued' = issued \o IssuedIdx(Issue(sourceZips, closureDest, idx + 1))
            /\ results' = Append(newResults, rec)
            /\ UNCHANGED <<loading, active, sourceZips, closureDest>>
       ELSE /\ results' = FinalResults(Append(newResults, rec))
            /\ loading' = FALSE
            /\ active' = active - 1
            /\ pc' = "idle"
            /\ idx' = 0
            /\ inflight' = Settled
            /\ UNCHANGED <<issued, sourceZips, closureDest>>
  /\ UNCHANGED <<formVars, queryVars>>

\* lines 47/49 and what follows the push: either the next iteration starts
\* its request (line 46), or the loop is over and lines 53-62 run
Push(rec) ==
  /\ IF idx < 4
       THEN /\ newResults' = Append(newResults, rec)
            /\ idx' = idx + 1
            /\ pc' = "fetch"
            /\ inflight' = Settled \o Issue(sourceZips, closureDest, idx + 1)
            /\ issued' = issued \o IssuedIdx(Issue(sourceZips, closureDest, idx + 1))
            /\ UNCHANGED <<results, loading, active, sourceZips, closureDest>>
       ELSE /\ results' = FinalResults(Append(newResults, rec))
            /\ loading' = FALSE
            /\ active' = active - 1
            /\ pc' = "idle"
            /\ idx' = 0
            /\ newResults' = <<>>
            /\ sourceZips' = <<>>
            /\ closureDest' = <<>>
            /\ inflight' = Settled
            /\ UNCHANGED issued
  /\ UNCHANGED <<formVars, queryVars>>

\* a mutant of Catch: the error leaves handleSubmit, which ends there
CatchEscapes(message) ==
  /\ pc' = "idle"
  /\ active' = active - 1
  /\ inflight' = Settled
  /\ UNCHANGED <<formVars, queryVars, results, loading, idx, sourceZips,
                 closureDest, newResults, issued>>

\* lines 48-50
Catch(message) == Push(ErrorRecord(sourceZips[idx], message))

\* line 4: fetch rejects
FetchReject(message) ==
  /\ pc = "fetch"
  /\ Catch(message)

\* line 4: fetch resolves with a response; line 5 starts reading its body
FetchResolve ==
  /\ pc = "fetch"
  /\ pc' = "json"
  /\ UNCHANGED <<formVars, queryVars, results, loading, active, idx,
                 sourceZips, closureDest, newResults, inflight, issued>>

\* line 5: the body does not parse
JsonReject(message) ==
  /\ pc = "json"
  /\ Catch(message)

\* line 5 resolves with data; lines 8-21 and 47 or 49 follow
JsonResolve(data) ==
  /\ pc = "json"
  /\ Push(TryGetDistance(sourceZips[idx], closureDest, data))

Next ==
  \/ \E k \in 1..4, v \in TypedValues : SetSourceZip(k, v)
  \/ \E v \in TypedValues : SetDestZip(v)
  \/ Submit
  \/ \E m \in FetchErrors : FetchReject(m)
  \/ FetchResolve
  \/ \E m \in JsonErrors : JsonReject(m)
  \/ \E data \in Bodies : JsonResolve(data)

Spec == Init /\ [][Next]_vars

\* the network answers: every request that was started settles in the end
Settle ==
  \/ \E m \in FetchErrors : FetchReject(m)
  \/ FetchResolve
  \/ \E m \in JsonErrors : JsonReject(m)
  \/ \E data \in Bodies : JsonResolve(data)

FairSpec == Spec /\ WF_vars(Settle)

(***************************************************************************)
(* One loop iteration on its own: lines 45-50 applied to a parsed body     *)
(***************************************************************************)
MaxMetres == 1200

MaxSeconds == 12

ProbeBodies ==
  {NullBody, DeniedBody, NoRowsBody, NoElementsBody, NotFoundBody}
    \cup {OkBody(d, s) : d \in (0..MaxMetres) \cup {12345},
                         s \in (0..MaxSeconds) \cup {678}}

\* a code between a form feed, a vertical tab, an ideographic space and a
\* line feed
PaddedZip == <<"\f", "U+000B", "3", "2", "2", "2", "0", "U+3000", "\n">>

Probes ==
  [zip : {InitialSourceZips[1], PaddedZip} \cup TypedValues,
   dest : TypedValues, data : ProbeBodies]

InitQuery ==
  /\ sourceZip = InitialSourceZips
  /\ destZip = <<>>
  /\ results = <<>>
  /\ loading = FALSE
  /\ active = 0
  /\ pc = "idle"
  /\ idx = 0
  /\ sourceZips = <<>>
  /\ closureDest = <<>>
  /\ newResults = <<>>
  /\ inflight = <<>>
  /\ issued = <<>>
  /\ probe \in Probes
  /\ outcome = <<>>

\* lines 45-50 for the probe: the record the iteration pushes
Evaluate ==
  /\ probe # NoProbe
  /\ outcome = <<>>
  /\ outcome' = <<TryGetDistance(probe.zip, probe.dest, probe.data)>>
  /\ UNCHANGED <<formVars, results, loading, active, handlerVars, inflight,
                 issued, probe>>

NextQuery == Evaluate

SpecQuery == InitQuery /\ [][NextQuery]_vars

(***************************************************************************)
(* Properties                                                              *)
(***************************************************************************)
HasResult(r) == "distanceKm" \in DOMAIN r

HasError(r) == "error" \in DOMAIN r

Present(batch) == {i \in 1..Len(batch) : HasResult(batch[i])}

\* record i holds the smallest distanceKm of the records with a result
IsSmallest(batch, i) ==
  \A j \in Present(batch) : batch[i].distanceKm <= batch[j].distanceKm

Abs(x) == IF x < 0 THEN -x ELSE x

\* C1: within a submission the requests are started in the order 1, 2, 3, 4,
\* request i+1 only once request i has settled and its record is pushed, so
\* at most one request is in flight in every reachable state.
C1_Sequential ==
  /\ Len(inflight) <= 1
  /\ issued = [k \in 1..Len(issued) |-> k]
  /\ inflight # <<>> =>
       /\ inflight[1].idx = Len(issued)
       /\ Len(newResults) = Len(issued) - 1

C1_Witness ==
  /\ Len(inflight) = 1
  /\ inflight[1].idx = 3
  /\ Len(newResults) = 2
  /\ HasError(newResults[1])
  /\ HasResult(newResults[2])

\* C2: whatever the outcome of each query, the loop goes on to the next
\* source, and a submission that has ended has started all four queries,
\* has published exactly four records and has returned normally.
C2_FullBatch ==
  /\ pc # "idle" => Len(newResults) = idx - 1 /\ Len(issued) = idx
  /\ (pc = "idle" /\ issued # <<>>) =>
       /\ issued = <<1, 2, 3, 4>>
       /\ Len(results) = 4
       /\ ~loading
       /\ active = 0

C2_Witness ==
  /\ pc = "idle"
  /\ Len(results) = 4
  /\ HasError(results[1]) /\ results[1].error = FailedToFetch
  /\ HasError(results[2]) /\ results[2].error = JsonSyntaxMsg
  /\ HasError(results[3]) /\ results[3].error = UndefElementsMsg
  /\ HasResult(results[4])

\* C3: the i-th record of a batch that is being published carries the i-th
\* source field exactly as entered, whatever the outcomes were.
C3_SourceOrder ==
  [][(results' # results /\ results' # <<>>) =>
       /\ Len(results') = 4
       /\ \A i \in 1..4 : results'[i].source = sourceZip[i]]_vars

C3_Witness ==
  /\ Len(results) = 4
  /\ \A i \in 1..4 : results[i].source = sourceZip[i]
  /\ sourceZip[2] \in TypedValues
  /\ HasResult(results[1]) /\ HasResult(results[2])
  /\ results[1].distanceKm > results[2].distanceKm
  /\ HasError(results[3]) /\ results[3].error # <<>>
  /\ HasResult(results[4])
  /\ results[4].distanceKm < results[1].distanceKm

\* C4: in a batch with at least one result, every record with a result
\* whose distanceKm is the smallest of the results is flagged isMin,
\* whatever the other queries did.
C4_MinFlagged ==
  \A i \in Present(results) : IsSmallest(results, i) => results[i].isMin

\* C5: a record is flagged isMin only if it has a result and its distanceKm
\* is the smallest of the results of its batch; no error record is flagged.
C5_OnlyMinFlagged ==
  \A i \in 1..Len(results) :
    results[i].isMin =>
      /\ HasResult(results[i])
      /\ ~HasError(results[i])
      /\ IsSmallest(results, i)

C5_Witness ==
  /\ Len(results) = 4
  /\ HasError(results[1]) /\ results[1].error # <<>>
  /\ HasResult(results[2]) /\ ~results[2].isMin
  /\ HasResult(results[3]) /\ results[3].isMin
  /\ HasResult(results[4]) /\ results[4].isMin

\* C6: the published set is empty from the submission on and as long as the
\* batch is outstanding, no request is started while something is
\* published, and the set changes only by being cleared or by going, in
\* one step, from empty to the complete batch of four once every query has
\* settled.
C6_AtomicPublish ==
  [][/\ loading' => results' = <<>>
     /\ Len(inflight') > Len(inflight) => results' = <<>>
     /\ Len(results') \in {0, 4}
     /\ results' # results =>
          \/ results' = <<>> /\ loading'
          \/ /\ results = <<>>
             /\ Len(results') = 4
             /\ Len(issued) = 4
             /\ inflight' = <<>>
             /\ ~loading']_vars

C6_Witness ==
  /\ loading
  /\ results = <<>>
  /\ Len(newResults) = 3
  /\ pc = "json"

\* C7: while loading is set no field changes and no submission starts, so
\* at most one handleSubmit is running at any time.
C7_Busy ==
  [][/\ loading => /\ sourceZip' = sourceZip
                    /\ destZip' = destZip
                    /\ active' <= active
     /\ active' <= 1
     /\ loading' <=> active' = 1]_vars

C7_Witness ==
  /\ loading
  /\ active = 1
  /\ pc = "json"
  /\ idx = 2
  /\ FormValid

\* the body reports no usable route: its top-level status is not "OK", or
\* the first element of its first row is missing or has a status not "OK"
NoUsableRoute(data) ==
  \/ data.status # "OK"
  \/ Len(data.rows) = 0
  \/ Len(data.rows[1].elements) = 0
  \/ data.rows[1].elements[1].status # "OK"

\* C8: for every parsed body that reports no usable route, the record of
\* the source carries the error "No route found from A to B", A and B
\* being the trimmed source and destination.
C8_NoRoute ==
  (outcome # <<>> /\ ~IsNull(probe.data) /\ NoUsableRoute(probe.data)) =>
    /\ HasError(outcome[1])
    /\ outcome[1].error = NoRouteMessage(Trim(probe.zip), Trim(probe.dest))

ProbeMetres == probe.data.rows[1].elements[1].distance.value

ProbeSeconds == probe.data.rows[1].elements[1].duration.value

\* C9 as stated: each value is rounded to 2 decimals with halves away from
\* zero (d metres are d / 10 hundredths of a kilometre, s seconds are
\* 5 s / 3 hundredths of a minute).
C9_HalfAwayFromZero ==
  (outcome # <<>> /\ HasResult(outcome[1])) =>
    /\ outcome[1].distanceKm = (ProbeMetres + 5) \div 10
    /\ outcome[1].distanceMiles =
         MilesFloor(ProbeMetres)
           + (IF 2 * MilesRem(ProbeMetres) >= 10000000 THEN 1 ELSE 0)
    /\ outcome[1].durationMins = (10 * ProbeSeconds + 3) \div 6

\* C9 amended: each value is a nearest hundredth of d / 1000, of
\* d * 0.621371 / 1000 (the unrounded kilometres) and of s / 60; a
\* kilometre value exactly half way goes to either neighbour; 12345 m and
\* 678 s give 12.35 km, 7.67 miles and 11.30 minutes.
C9_Nearest ==
  (outcome # <<>> /\ HasResult(outcome[1])) =>
    LET d == ProbeMetres
        s == ProbeSeconds
        r == outcome[1]
    IN  /\ Abs(10 * r.distanceKm - d) <= 5
        /\ r.distanceMiles \in {MilesFloor(d), MilesFloor(d) + 1}
        /\ r.distanceMiles = MilesFloor(d) => 2 * MilesRem(d) <= 10000000
        /\ r.distanceMiles # MilesFloor(d) => 2 * MilesRem(d) >= 10000000
        /\ Abs(3 * r.durationMins - 5 * s) <= 1
        /\ (d = 12345 /\ s = 678) =>
             /\ r.distanceKm = 1235
             /\ r.distanceMiles = 767
             /\ r.durationMins = 1130

C9_Witness ==
  /\ outcome # <<>>
  /\ HasResult(outcome[1])
  /\ ProbeMetres = 1005
  /\ outcome[1].distanceKm = 100

\* C10: provided every request settles, a batch that is outstanding ends:
\* the four records are published and loading is reset.
C10_Completes == loading ~> (~loading /\ Len(results) = 4)

C10_Witness ==
  /\ ~loading
  /\ Len(results) = 4
  /\ HasError(results[1]) /\ results[1].error = EmptyMsg
  /\ HasResult(results[2])
  /\ HasError(results[3]) /\ results[3].error # <<>>
  /\ HasError(results[4])

====
